---- MODULE Spec2Model ----
(***************************************************************************)
(* A model of the miniseed crate (src/lib.rs): the streaming record reader *)
(* MSFileParam with the records it hands out, and the bulk trace list      *)
(* MSTraceList with the typed sample accessors of a trace segment.  The    *)
(* libmseed decoder is the environment: every status it may answer a call  *)
(* with is a nondeterministic choice.                                      *)
(***************************************************************************)
EXTENDS Integers, Sequences, FiniteSets, TLC

\* ------------------------------------------------------------ bounds
MaxRecords == 3
MaxSamples == 2
MaxTraces == 2

\* ------------------------------------------------- program constants
MS_NOERROR == 0
MS_ENDOFFILE == 1
MSF_UNPACKDATA == 1
MSF_VALIDATECRC == 4

\* Statuses of the decoder other than success and end of file
\* (libmseed: MS_GENERROR, MS_INVALIDCRC).
ErrCodes == {-1, -7}

VARIABLES
    \* MSFileParam and the decoder behind its handle
    rstate,      \* "live" | "dropped": the reader value's lifetime
    msfp,        \* "null" | "open": the decoder handle
    fpos,        \* cursor the decoder writes back
    last,        \* last-record flag the decoder writes back
    flags,       \* u32 flag word
    verbose,     \* i8 verbosity
    fileLen,     \* number of records of the file
    pos,         \* records the decoder has consumed
    held,        \* MSRecord values the caller holds (by record number)
    current,     \* the record of the most recent read, 0 when it gave none
    \* MSTraceList and the segment under inspection
    astate,      \* "new" | "loaded" | "failed" | "crashed" | "dropped"
    mstl,        \* "null" | "alloc" | "freed": the trace list
    numtraces_,  \* numtraces field of the list
    seg,         \* the MS3TraceSeg a MSTraceSegment points to
    segPre,      \* that segment as it was when the last operation started
    \* what the last operation did
    op,          \* its name
    ret,         \* its result
    calls,       \* the collaborator calls it issued, in order
    tick,        \* alternates on every operation of the reader
    \* history
    errYielded,  \* next() has produced Some(Err)
    afterErr,    \* errYielded held when the last next() was called
    closeCalls,  \* collaborator calls issued with a null path, in total
    lastSet,     \* the argument of the latest call of each setter, or the
                 \* default of new() when it was never called
    nullDeref,   \* a null trace list pointer has been dereferenced
    everLoaded,  \* a read() of the trace list has returned normally
    loadFailed,  \* a bulk parse has answered a nonzero status
    \* the chains of a loaded trace list and the traversals over them
    idChain,     \* addresses of the MS3TraceID nodes, in chain order
    segChain,    \* per MS3TraceID, its MS3TraceSeg addresses in chain order
    iters,       \* the traversals the caller holds
    \* the identifier buffer of a record or channel
    sidbuf,      \* sid: the fixed-size array of i8
    parsed       \* what the previous parse of sidbuf gave

readerVars == <<rstate, msfp, fpos, last, flags, verbose, fileLen, pos, held,
                current, errYielded, afterErr, closeCalls, lastSet>>
chainVars == <<idChain, segChain, iters>>
sidVars == <<sidbuf, parsed>>
archiveVars == <<astate, mstl, numtraces_, seg, segPre, nullDeref, everLoaded,
                 loadFailed, chainVars, sidVars>>
vars == <<rstate, msfp, fpos, last, flags, verbose, fileLen, pos, held,
          current, astate, mstl, numtraces_, seg, segPre, op, ret, calls,
          tick, errYielded, afterErr, closeCalls, lastSet, nullDeref, everLoaded,
          loadFailed, idChain, segChain, iters, sidbuf, parsed>>

\* ------------------------------------------------------------ results
Ret(k, v) == [kind |-> k, val |-> v, elem |-> 0, bytes |-> 0, typed |-> TRUE]

Call(f, p, fl, vb, ty, tr, rv) ==
    [fn |-> f, path |-> p, flags |-> fl, verbose |-> vb, type |-> ty,
     truncate |-> tr, rv |-> rv]

RECURSIVE NullPathCalls(_)
NullPathCalls(log) ==
    IF log = <<>> THEN 0
    ELSE (IF Head(log).path = "NULL" THEN 1 ELSE 0) + NullPathCalls(Tail(log))

\* ------------------------------------------------------- flag words
HasBit(f, b) == (f \div b) % 2 = 1
\* A faulty f | b that adds the mask
BitOrAdds(f, b) == f + b

\* f | b and f & !b for a one-bit mask b
BitOr(f, b) == IF HasBit(f, b) THEN f ELSE f + b
BitAndNot(f, b) == IF HasBit(f, b) THEN f - b ELSE f

\* --------------------------------------------------------- the reader
\* Outcomes of one ms3_readmsr_r decode call with the decoder at record p
\* of a file of n records: the next record, end of file, or an error that
\* consumes nothing.
ms3_readmsr_r(p, n) ==
    {[rv |-> MS_NOERROR, pos |-> p + 1] : x \in IF p < n THEN {0} ELSE {}}
    \cup {[rv |-> MS_ENDOFFILE, pos |-> p] : x \in IF p = n THEN {0} ELSE {}}
    \cup {[rv |-> e, pos |-> p] : e \in ErrCodes}

\* A faulty read_record() that asks the decoder again after an error status
ReadCallsRetry(out) ==
    LET c == Call("ms3_readmsr_r", "mspath", flags, verbose, 0, 0, out.rv)
    IN IF out.rv \notin {MS_NOERROR, MS_ENDOFFILE} THEN <<c, c>> ELSE <<c>>

\* The collaborator calls of one read_record()
ReadCalls(out) ==
    <<Call("ms3_readmsr_r", "mspath", flags, verbose, 0, 0, out.rv)>>

\* read_record()'s match on the status; Error carries format!("Error: {}", rv),
\* which is one-to-one in rv
read_record_result(out) ==
    IF out.rv = MS_NOERROR THEN Ret("Ok", out.pos)
    ELSE IF out.rv = MS_ENDOFFILE THEN Ret("EOF", 0)
    ELSE Ret("Error", out.rv)

\* next()'s match on read_record()'s result
next_item(r) ==
    IF r.kind = "Ok" THEN Ret("SomeOk", r.val)
    ELSE IF r.kind = "EOF" THEN Ret("None", 0)
    ELSE Ret("SomeErr", r.val)

\* What read_record() does to the reader, given the decoder's answer
read_record_effect(out) ==
    /\ rstate = "live"
    /\ msfp' = "open"
    /\ pos' = out.pos
    /\ fpos' = IF out.rv = MS_NOERROR THEN out.pos ELSE fpos
    /\ last' = IF out.rv = MS_NOERROR
               THEN (IF out.pos = fileLen THEN 1 ELSE 0) ELSE last
    /\ calls' = ReadCalls(out)
    /\ closeCalls' = closeCalls + NullPathCalls(calls')
    /\ current' = IF out.rv = MS_NOERROR THEN out.pos ELSE 0
    /\ held' = IF out.rv = MS_NOERROR THEN held \cup {out.pos} ELSE held
    /\ tick' = 1 - tick
    /\ UNCHANGED <<rstate, flags, verbose, fileLen, lastSet>>
    /\ UNCHANGED archiveVars

read_record ==
    \E out \in ms3_readmsr_r(pos, fileLen) :
        /\ read_record_effect(out)
        /\ op' = "read_record"
        /\ ret' = read_record_result(out)
        /\ UNCHANGED <<errYielded, afterErr>>

Iterator_next ==
    \E out \in ms3_readmsr_r(pos, fileLen) :
        /\ read_record_effect(out)
        /\ op' = "next"
        /\ ret' = next_item(read_record_result(out))
        /\ afterErr' = errYielded
        /\ errYielded' = (errYielded \/ ret'.kind = "SomeErr")

setter(name) ==
    /\ rstate = "live"
    /\ op' = name
    /\ ret' = Ret("unit", 0)
    /\ calls' = <<>>
    /\ tick' = 1 - tick
    /\ UNCHANGED <<rstate, msfp, fpos, last, fileLen, pos, held, current,
                   errYielded, afterErr, closeCalls>>
    /\ UNCHANGED archiveVars

unpack_data ==
    \E unpack \in BOOLEAN :
        /\ setter("unpack_data")
        /\ flags' = IF unpack THEN BitOr(flags, MSF_UNPACKDATA)
                    ELSE BitAndNot(flags, MSF_UNPACKDATA)
        /\ lastSet' = [lastSet EXCEPT !.unpack = unpack]
        /\ UNCHANGED verbose

validate_crc ==
    \E validate \in BOOLEAN :
        /\ setter("validate_crc")
        /\ flags' = IF validate THEN BitOr(flags, MSF_VALIDATECRC)
                    ELSE BitAndNot(flags, MSF_VALIDATECRC)
        /\ lastSet' = [lastSet EXCEPT !.crc = validate]
        /\ UNCHANGED verbose

set_verbose ==
    \E v \in BOOLEAN :
        /\ setter("verbose")
        /\ verbose' = IF v THEN 1 ELSE 0
        /\ lastSet' = [lastSet EXCEPT !.verbose = v]
        /\ UNCHANGED flags

\* An accessor of a MSRecord the caller holds: MSRecord carries no borrow of
\* the reader, so any held record may be read at any time.
record_accessor ==
    \E r \in held :
        /\ op' = "record_accessor"
        /\ ret' = Ret("value", r)
        /\ calls' = <<>>
        /\ tick' = 1 - tick
        /\ UNCHANGED readerVars
        /\ UNCHANGED archiveVars

\* A faulty Drop that passes the reader's flags and verbosity on
CloseCallWithFlags(rv) == Call("ms3_readmsr_r", "NULL", flags, verbose, 0, 0, rv)

\* The call of Drop: null path, null cursor and flag references, zero flags
CloseCall(rv) == Call("ms3_readmsr_r", "NULL", 0, 0, 0, 0, rv)

drop ==
    /\ rstate = "live"
    /\ \E rv \in {MS_NOERROR} \cup ErrCodes :
        /\ calls' = <<CloseCall(rv)>>
        /\ msfp' = IF rv = MS_NOERROR THEN "null" ELSE msfp
        /\ ret' = IF rv = MS_NOERROR THEN Ret("unit", 0) ELSE Ret("panic", rv)
    /\ rstate' = "dropped"
    /\ op' = "drop"
    /\ closeCalls' = closeCalls + NullPathCalls(calls')
    /\ tick' = 1 - tick
    /\ UNCHANGED <<fpos, last, flags, verbose, fileLen, pos, held, current,
                   errYielded, afterErr, lastSet>>
    /\ UNCHANGED archiveVars

\* ---------------------------------------------------------------- Init
NoSeg == [sampletype |-> 0, samplecnt |-> 0, numsamples |-> 0, datasize |-> 0,
          datasamples |-> <<>>]

\* The two traversals a caller holds at once
Slots == {"a", "b"}

NoIter == [kind |-> "none", of |-> 0, cur |-> 0, yielded |-> <<>>, nones |-> 0]

NoParse == [kind |-> "none"]

InitReader ==
    /\ rstate = "live"
    /\ msfp = "null"
    /\ fpos = 0
    /\ last = 0
    /\ flags = MSF_UNPACKDATA
    /\ verbose = 0
    /\ fileLen \in 0..MaxRecords
    /\ pos = 0
    /\ held = {}
    /\ current = 0
    /\ tick = 0
    /\ errYielded = FALSE
    /\ afterErr = FALSE
    /\ closeCalls = 0
    /\ lastSet = [unpack |-> TRUE, crc |-> FALSE, verbose |-> FALSE]

InitList ==
    /\ astate = "new"
    /\ mstl = "null"
    /\ numtraces_ = 0
    /\ seg = NoSeg
    /\ segPre = NoSeg
    /\ nullDeref = FALSE
    /\ everLoaded = FALSE
    /\ loadFailed = FALSE
    /\ idChain = <<>>
    /\ segChain = [c \in 1..MaxTraces |-> <<>>]

InitNew ==
    /\ op = "new"
    /\ ret = Ret("new", 0)
    /\ calls = <<>>
    /\ iters = [s \in Slots |-> NoIter]

InitSid ==
    /\ sidbuf = <<>>
    /\ parsed = NoParse

Init == InitReader /\ InitList /\ InitNew /\ InitSid

Next ==
    \/ read_record
    \/ Iterator_next
    \/ unpack_data
    \/ validate_crc
    \/ set_verbose
    \/ record_accessor
    \/ drop

Spec == Init /\ [][Next]_vars

\* ------------------------------------------------------ the trace list
\* Sample type tags a segment may carry: 'i', 'f', 'd', and 't' (text),
\* which MSSampleType has no variant for.
Tags == {105, 102, 100, 116}

SampleTypes == {"Integer32", "Float32", "Float64"}

as_char(t) ==
    CASE t = "Integer32" -> 105
      [] t = "Float32" -> 102
      [] t = "Float64" -> 100

KnownTag(c) == c \in {105, 102, 100}

\* A faulty sampletype() that reads 'f' as Float64
sampletype_swapped(s) ==
    CASE s.sampletype = 105 -> "Integer32"
      [] s.sampletype = 102 -> "Float64"
      [] s.sampletype = 100 -> "Float64"

\* sampletype(): defined on the three known tags, a panic on any other
sampletype(s) ==
    CASE s.sampletype = 105 -> "Integer32"
      [] s.sampletype = 102 -> "Float32"
      [] s.sampletype = 100 -> "Float64"

\* Bytes of one sample of the type tagged c: i32, f32, f64; a text byte
Width(c) ==
    CASE c = 105 -> 4
      [] c = 102 -> 4
      [] c = 100 -> 8
      [] OTHER -> 1

\* A segment as the bulk parse leaves it: its payload holds numsamples
\* samples encoded as its tag says, or is absent. datasamples lists the
\* encoding of each sample in the buffer.
Segment(tag, cnt, num, unpacked) ==
    [sampletype |-> tag, samplecnt |-> cnt, numsamples |-> num,
     datasize |-> IF unpacked THEN num * Width(tag) ELSE 0,
     datasamples |-> IF unpacked THEN [i \in 1..num |-> tag] ELSE <<>>]

Segments ==
    {Segment(tag, cnt, num, u) :
        tag \in Tags, cnt \in 0..MaxSamples, num \in 0..MaxSamples,
        u \in BOOLEAN}

samplecnt(s) == s.samplecnt
numsamples(s) == s.numsamples
datasize(s) == s.datasize

\* A faulty data_unpacked() with || for &&
data_unpacked_or(s) == samplecnt(s) = numsamples(s) \/ datasize(s) > 0

data_unpacked(s) == samplecnt(s) = numsamples(s) /\ datasize(s) > 0

\* mstl3_convertsamples: on success the buffer holds the samples in the
\* requested type and the tag and size follow; on failure the segment keeps
\* its tag and size.
mstl3_convertsamples(s, type, rv) ==
    IF rv = 0
    THEN [s EXCEPT !.sampletype = type,
                   !.datasamples = [i \in 1..Len(s.datasamples) |-> type],
                   !.datasize = Len(s.datasamples) * Width(type)]
    ELSE s

\* A faulty convert_data() without the test t != self.sampletype()
convert_data_always(s, t, rv) ==
    IF ~data_unpacked(s)
    THEN [ok |-> FALSE, panic |-> FALSE, calls |-> <<>>, seg |-> s]
    ELSE IF ~KnownTag(s.sampletype)
    THEN [ok |-> FALSE, panic |-> TRUE, calls |-> <<>>, seg |-> s]
    ELSE [ok |-> rv = 0, panic |-> FALSE,
          calls |-> <<Call("mstl3_convertsamples", "", 0, 0, as_char(t), 0, rv)>>,
          seg |-> mstl3_convertsamples(s, as_char(t), rv)]

\* convert_data(t), with rv the collaborator's answer should it be asked
convert_data(s, t, rv) ==
    IF ~data_unpacked(s)
    THEN [ok |-> FALSE, panic |-> FALSE, calls |-> <<>>, seg |-> s]
    ELSE IF ~KnownTag(s.sampletype)
    THEN [ok |-> FALSE, panic |-> TRUE, calls |-> <<>>, seg |-> s]
    ELSE IF t # sampletype(s)
    THEN [ok |-> rv = 0, panic |-> FALSE,
          calls |-> <<Call("mstl3_convertsamples", "", 0, 0, as_char(t), 0, rv)>>,
          seg |-> mstl3_convertsamples(s, as_char(t), rv)]
    ELSE [ok |-> TRUE, panic |-> FALSE, calls |-> <<>>, seg |-> s]

Vec(t, n, b, ty) ==
    [kind |-> "vec", val |-> n, elem |-> as_char(t), bytes |-> b, typed |-> ty]

\* from_raw_parts(s.datasamples as *mut T, s.samplecnt).to_vec(): reads
\* samplecnt elements of T. Reading past the buffer is undefined: the copy
\* returns whatever lies there, or the process faults.
from_raw_parts(s, t) ==
    LET b == s.samplecnt * Width(as_char(t))
        ty == \A i \in 1..Len(s.datasamples) : s.datasamples[i] = as_char(t)
    IN IF b <= s.datasize
       THEN {Vec(t, s.samplecnt, b, ty)}
       ELSE {Vec(t, s.samplecnt, b, FALSE), Ret("crash", 0)}

archiveOp(name) ==
    /\ op' = name
    /\ segPre' = seg
    /\ UNCHANGED tick
    /\ UNCHANGED readerVars
    /\ UNCHANGED <<chainVars, sidVars>>

\* A faulty read() without the assertion
read_assert_absent(rv) == TRUE

\* assert_eq!(rv, MS_NOERROR): whether read() goes on to return
read_assert(rv) == rv = MS_NOERROR

\* read(): the bulk parse, then the assertion on its status
read ==
    /\ astate \in {"new", "loaded"}
    /\ archiveOp("read")
    /\ \E rv \in {MS_NOERROR} \cup ErrCodes :
        /\ calls' = <<Call("ms3_readtracelist", "mspath", MSF_UNPACKDATA, 0, 0, 0, rv)>>
        /\ IF rv = MS_NOERROR
           THEN /\ mstl' = "alloc"
                /\ \E n \in 0..MaxTraces :
                    /\ numtraces_' = n
                    /\ seg' \in IF n = 0 THEN {NoSeg} ELSE Segments
           ELSE /\ mstl' \in {mstl, "alloc"}
                /\ seg' = NoSeg
                /\ UNCHANGED numtraces_
        /\ IF read_assert(rv)
           THEN astate' = "loaded" /\ ret' = Ret("unit", 0)
           ELSE astate' = "failed" /\ ret' = Ret("panic", rv)
        /\ everLoaded' = (everLoaded \/ (rv = MS_NOERROR /\ read_assert(rv)))
        /\ loadFailed' = (loadFailed \/ rv # MS_NOERROR)
    /\ UNCHANGED nullDeref

\* ptr(): *self.mstl. On the null pointer of new() the read is undefined:
\* the process faults, or the accessor goes on with whatever it read.
list_accessor(name) ==
    /\ astate \in {"new", "loaded"}
    /\ archiveOp(name)
    /\ calls' = <<>>
    /\ IF mstl = "null"
       THEN /\ nullDeref' = TRUE
            /\ \/ (ret' = Ret("crash", 0) /\ astate' = "crashed")
               \/ (\E g \in 0..MaxTraces : ret' = Ret("value", g))
                  /\ UNCHANGED astate
       ELSE /\ ret' = Ret("value", numtraces_)
            /\ UNCHANGED <<nullDeref, astate>>
    /\ UNCHANGED <<mstl, numtraces_, seg, everLoaded, loadFailed>>

numtraces == list_accessor("numtraces")

traces == list_accessor("traces")

segment_data_unpacked ==
    /\ astate = "loaded"
    /\ seg # NoSeg
    /\ archiveOp("data_unpacked")
    /\ calls' = <<>>
    /\ ret' = Ret("bool", IF data_unpacked(seg) THEN 1 ELSE 0)
    /\ UNCHANGED <<astate, mstl, numtraces_, seg, nullDeref, everLoaded, loadFailed>>

\* to_vec_i32 / to_vec_f32 / to_vec_f64: the three bodies differ in t only
to_vec(name, t) ==
    /\ astate = "loaded"
    /\ seg # NoSeg
    /\ archiveOp(name)
    /\ \E rv \in {0, -1} :
        LET c == convert_data(seg, t, rv)
        IN IF ~data_unpacked(seg)
           THEN /\ ret' = Vec(t, 0, 0, TRUE)
                /\ calls' = <<>>
                /\ UNCHANGED <<seg, astate>>
           ELSE IF c.panic
           THEN /\ ret' = Ret("panic", 0)
                /\ calls' = <<>>
                /\ astate' = "failed"
                /\ UNCHANGED seg
           ELSE /\ calls' = c.calls
                /\ seg' = c.seg
                /\ \E r \in from_raw_parts(c.seg, t) :
                    /\ ret' = r
                    /\ astate' = IF r.kind = "crash" THEN "crashed" ELSE astate
    /\ UNCHANGED <<mstl, numtraces_, nullDeref, everLoaded, loadFailed>>

to_vec_i32 == to_vec("to_vec_i32", "Integer32")

to_vec_f32 == to_vec("to_vec_f32", "Float32")

to_vec_f64 == to_vec("to_vec_f64", "Float64")

\* MSTraceList has no Drop: when the value goes, nothing is called and the
\* list the collaborator allocated stays as it is.
MSTraceList_drop ==
    /\ astate \in {"new", "loaded", "failed"}
    /\ archiveOp("drop_list")
    /\ astate' = "dropped"
    /\ calls' = <<>>
    /\ ret' = Ret("unit", 0)
    /\ UNCHANGED <<mstl, numtraces_, seg, nullDeref, everLoaded, loadFailed>>

NextArchive ==
    \/ read
    \/ numtraces
    \/ traces
    \/ segment_data_unpacked
    \/ to_vec_i32
    \/ to_vec_f32
    \/ to_vec_f64
    \/ MSTraceList_drop

\* The trace list is built from a path alone: no reader's file is in play.
InitArchive == Init /\ fileLen = 0

SpecArchive == InitArchive /\ [][NextArchive]_vars

ToVecOps == {"to_vec_i32", "to_vec_f32", "to_vec_f64"}

Requested(o) ==
    CASE o = "to_vec_i32" -> 105
      [] o = "to_vec_f32" -> 102
      [] o = "to_vec_f64" -> 100

\* ---------------------------------------------- the consumer's for loop
\* for r in fp { ... }: next() until it answers None, then the reader is
\* dropped. The flags may be set before the first read.
LoopDone == op = "next" /\ ret.kind = "None"

LoopStep ==
    \/ (~LoopDone /\ Iterator_next)
    \/ (LoopDone /\ drop)

NextLoop ==
    \/ (msfp = "null" /\ unpack_data)
    \/ (msfp = "null" /\ validate_crc)
    \/ (msfp = "null" /\ set_verbose)
    \/ LoopStep

\* The loop is sequential code: it takes its next step whenever it has one.
SpecLoop == Init /\ [][NextLoop]_vars /\ WF_vars(LoopStep)

\* --------------------------------------------- traversing the chains
MaxSegs == 2
MaxNones == 2

\* The chains a bulk parse may leave behind: up to max nodes, linked against
\* the order of their addresses
Chains(max) == {[i \in 1..n |-> n + 1 - i] : n \in 0..max}

Range(q) == {q[i] : i \in 1..Len(q)}

\* The head pointer of a chain and the next field of its node p; 0 is null
First(chain) == IF chain = <<>> THEN 0 ELSE chain[1]

NextPtr(chain, p) ==
    LET i == CHOOSE k \in 1..Len(chain) : chain[k] = p
    IN IF i < Len(chain) THEN chain[i + 1] ELSE 0

Traversal(k, c, head) ==
    [kind |-> k, of |-> c, cur |-> head, yielded |-> <<>>, nones |-> 0]

\* One next() of an iterator whose pointer walks the given chain: the
\* iterator afterwards and the pointer it yields (0: None). yielded and
\* nones record what the iterator has answered so far.
iter_none(it) ==
    [it |-> [it EXCEPT !.nones = IF @ < MaxNones THEN @ + 1 ELSE @], item |-> 0]

\* A faulty next() that hands out the pointer it has advanced to
MSTraceIDIterator_next_advanced(it) ==
    IF it.cur = 0
    THEN iter_none(it)
    ELSE LET nx == NextPtr(idChain, it.cur)
         IN [it |-> [it EXCEPT !.cur = nx, !.yielded = Append(@, nx)],
             item |-> nx]

MSTraceIDIterator_next(it) ==
    IF it.cur = 0
    THEN iter_none(it)
    ELSE LET prev == it.cur
         IN [it |-> [it EXCEPT !.cur = NextPtr(idChain, it.cur),
                               !.yielded = Append(@, prev)],
             item |-> prev]

MSTraceSegmentIterator_next(it) ==
    IF it.cur = 0
    THEN iter_none(it)
    ELSE LET prev == it.cur
         IN [it |-> [it EXCEPT !.cur = NextPtr(segChain[it.of], it.cur),
                               !.yielded = Append(@, prev)],
             item |-> prev]

traverseOp(name) ==
    /\ astate = "loaded"
    /\ op' = name
    /\ calls' = <<>>
    /\ UNCHANGED <<tick, readerVars, sidVars>>
    /\ UNCHANGED <<astate, mstl, numtraces_, seg, segPre, nullDeref, everLoaded,
                   loadFailed, idChain, segChain>>

\* let it = list.traces(), kept by the caller in slot s
MSTraceList_traces(s) ==
    /\ traverseOp("traces")
    /\ iters' = [iters EXCEPT ![s] = Traversal("traces", 0, First(idChain))]
    /\ ret' = Ret("iter", 0)

\* let it = id.segments(), for a channel c handed out by some traversal
MSTraceID_segments(s, c) ==
    /\ traverseOp("segments")
    /\ iters' = [iters EXCEPT ![s] = Traversal("segments", c, First(segChain[c]))]
    /\ ret' = Ret("iter", c)

Item(r) == IF r.item = 0 THEN Ret("None", 0) ELSE Ret("Some", r.item)

TraceID_next(s) ==
    /\ iters[s].kind = "traces"
    /\ traverseOp("traces.next")
    /\ LET r == MSTraceIDIterator_next(iters[s])
       IN /\ iters' = [iters EXCEPT ![s] = r.it]
          /\ ret' = Item(r)

TraceSegment_next(s) ==
    /\ iters[s].kind = "segments"
    /\ traverseOp("segments.next")
    /\ LET r == MSTraceSegmentIterator_next(iters[s])
       IN /\ iters' = [iters EXCEPT ![s] = r.it]
          /\ ret' = Item(r)

NextTraverse ==
    \/ \E s \in Slots : MSTraceList_traces(s)
    \/ \E s \in Slots : \E c \in Range(idChain) : MSTraceID_segments(s, c)
    \/ \E s \in Slots : TraceID_next(s)
    \/ \E s \in Slots : TraceSegment_next(s)

\* A trace list after new() and a read() that returned
InitLoaded ==
    /\ InitReader /\ fileLen = 0
    /\ astate = "loaded"
    /\ mstl = "alloc"
    /\ numtraces_ = Len(idChain)
    /\ seg = NoSeg
    /\ segPre = NoSeg
    /\ nullDeref = FALSE
    /\ everLoaded = TRUE
    /\ loadFailed = FALSE
    /\ op = "read"
    /\ ret = Ret("unit", 0)
    /\ calls = <<Call("ms3_readtracelist", "mspath", MSF_UNPACKDATA, 0, 0, 0, MS_NOERROR)>>
    /\ iters = [s \in Slots |-> NoIter]

\* The bulk parse has linked some channels, each with some segments.
InitTraverse ==
    /\ idChain \in Chains(MaxTraces)
    /\ segChain \in [1..MaxTraces -> Chains(MaxSegs)]
    /\ \A c \in (1..MaxTraces) \ Range(idChain) : segChain[c] = <<>>
    /\ InitLoaded
    /\ InitSid

SpecTraverse == InitTraverse /\ [][NextTraverse]_vars

\* ------------------------------------------------- the identifier
MaxSid == 4

\* Bytes an identifier array may hold: NUL, 'A', '_', and 0xFF as an i8
SidBytes == {0, 65, 95, -1}

\* *x as u8
as_u8(x) == IF x < 0 THEN x + 256 ELSE x

\* The bytes of the array before its first NUL, as u8
RECURSIVE UpToNul(_)
UpToNul(buf) ==
    IF buf = <<>> \/ Head(buf) = 0
    THEN <<>>
    ELSE <<as_u8(Head(buf))>> \o UpToNul(Tail(buf))

\* .map(cast).filter(|x| *x != 0).collect()
RECURSIVE NonZero(_)
NonZero(buf) ==
    IF buf = <<>>
    THEN <<>>
    ELSE (IF Head(buf) = 0 THEN <<>> ELSE <<as_u8(Head(buf))>>)
         \o NonZero(Tail(buf))

\* String::from_utf8 accepts the bytes; 0xFF is part of no UTF-8 sequence
from_utf8(v) == \A i \in 1..Len(v) : v[i] < 128

\* i8_to_string: the String, or the panic of unwrap()
i8_to_string(vin) ==
    LET v == NonZero(vin)
    IN IF from_utf8(v) THEN [ok |-> TRUE, s |-> v] ELSE [ok |-> FALSE, s |-> <<>>]

\* let s0 = "               "
s0 == [i \in 1..15 |-> 32]

\* Position of the first '_' of s, 0 when it has none
FirstSep(s) ==
    IF \E i \in 1..Len(s) : s[i] = 95
    THEN CHOOSE i \in 1..Len(s) : s[i] = 95 /\ \A j \in 1..(i - 1) : s[j] # 95
    ELSE 0

\* The collaborator ms_sid2nslc: splits NET_STA_LOC_CHA at its first three
\* '_' into the four buffers it is given; with fewer separators it answers
\* an error and leaves the buffers as they were passed.
ms_sid2nslc(s, xnet, xsta, xloc, xcha) ==
    LET i1 == FirstSep(s)
        r1 == SubSeq(s, i1 + 1, Len(s))
        i2 == FirstSep(r1)
        r2 == SubSeq(r1, i2 + 1, Len(r1))
        i3 == FirstSep(r2)
    IN IF i1 = 0 \/ i2 = 0 \/ i3 = 0
       THEN [rv |-> -1, net |-> xnet, sta |-> xsta, loc |-> xloc, cha |-> xcha]
       ELSE [rv |-> 0,
             net |-> SubSeq(s, 1, i1 - 1),
             sta |-> SubSeq(r1, 1, i2 - 1),
             loc |-> SubSeq(r2, 1, i3 - 1),
             cha |-> SubSeq(r2, i3 + 1, Len(r2))]

\* sid_to_nslc: the four strings (the status of the collaborator is not
\* looked at), or the panic of i8_to_string
sid_to_nslc(sid) ==
    LET str == i8_to_string(sid)
        r == ms_sid2nslc(str.s, s0, s0, s0, s0)
    IN IF str.ok
       THEN [kind |-> "nslc", sid |-> str.s,
             net |-> r.net, sta |-> r.sta, loc |-> r.loc, cha |-> r.cha]
       ELSE [kind |-> "panic", sid |-> <<>>,
             net |-> <<>>, sta |-> <<>>, loc |-> <<>>, cha |-> <<>>]

\* A faulty sid_to_nslc that compacts the stored array itself
sid_after_parse_compacted(buf) ==
    LET v == NonZero(buf)
    IN [i \in 1..Len(buf) |-> IF i <= Len(v) THEN (IF v[i] > 127 THEN v[i] - 256 ELSE v[i]) ELSE 0]

\* The stored array after a parse: sid_to_nslc borrows it (&[i8]) and hands
\* the collaborator a CString copy, so it is what it was.
sid_after_parse(buf) == buf

sidOp(name) ==
    /\ astate = "loaded"
    /\ op' = name
    /\ tick' = 1 - tick
    /\ UNCHANGED <<readerVars, chainVars>>
    /\ UNCHANGED <<astate, mstl, numtraces_, seg, segPre, nullDeref, everLoaded,
                   loadFailed>>

NSLCOps == {"network", "station", "location", "channel"}

Field(name, p) ==
    CASE name = "network" -> p.net
      [] name = "station" -> p.sta
      [] name = "location" -> p.loc
      [] name = "channel" -> p.cha

\* network() / station() / location() / channel(): sid_to_nslc(&sid).field
nslc_accessor(name) ==
    /\ sidOp(name)
    /\ LET p == sid_to_nslc(sidbuf)
       IN /\ parsed' = p
          /\ IF p.kind = "nslc"
             THEN /\ ret' = [Ret("string", 0) EXCEPT !.val = Field(name, p)]
                  /\ calls' = <<Call("ms_sid2nslc", p.sid, 0, 0, 0, 0, 0)>>
             ELSE /\ ret' = Ret("panic", 0)
                  /\ calls' = <<>>
    /\ sidbuf' = sid_after_parse(sidbuf)

network == nslc_accessor("network")

station == nslc_accessor("station")

location == nslc_accessor("location")

channel == nslc_accessor("channel")

\* sid(): i8_to_string(&sid)
MSRecord_sid ==
    /\ sidOp("sid")
    /\ LET str == i8_to_string(sidbuf)
       IN ret' = IF str.ok
                 THEN [Ret("string", 0) EXCEPT !.val = str.s]
                 ELSE Ret("panic", 0)
    /\ calls' = <<>>
    /\ UNCHANGED sidVars

NextSid ==
    \/ network
    \/ station
    \/ location
    \/ channel
    \/ MSRecord_sid

\* A loaded list with one channel, whose identifier array is sidbuf
InitSidBuffer ==
    /\ idChain = <<1>>
    /\ segChain = [c \in 1..MaxTraces |-> <<>>]
    /\ InitLoaded
    /\ sidbuf \in [1..MaxSid -> SidBytes]
    /\ parsed = NoParse

SpecSid == InitSidBuffer /\ [][NextSid]_vars

\* ------------------------------------------------------------- claims
\* C1: once next() has produced Some(Err), every later next() on that
\* reader produces no item (None).
C1_NoItemAfterError == (op = "next" /\ afterErr) => ret.kind = "None"

\* C2: the for loop over the reader finishes: next() eventually answers
\* None, whatever statuses the decoder gives on a finite file.
C2_LoopTerminates == <>LoopDone

\* C3: read_record() issues exactly one decode call and maps its status:
\* success to Ok(record), end of file to Err(EOF), any other status to
\* Err(Error) carrying that status.
C3_ReadRecordMapsStatus ==
    op = "read_record" =>
        /\ Len(calls) = 1
        /\ calls[1].fn = "ms3_readmsr_r"
        /\ calls[1].path # "NULL"
        /\ (calls[1].rv = MS_NOERROR => ret.kind = "Ok" /\ ret.val = current)
        /\ (calls[1].rv = MS_ENDOFFILE => ret.kind = "EOF")
        /\ (calls[1].rv \notin {MS_NOERROR, MS_ENDOFFILE} =>
                ret.kind = "Error" /\ ret.val = calls[1].rv)

C3_Witness ==
    op = "read_record" /\ ret.kind = "Error" /\ ret.val = -7 /\ pos > 0

\* C7: a record is read only while it is the most recent record of a live
\* reader.
C7_RecordReadOnlyWhileCurrent ==
    op = "record_accessor" => (rstate = "live" /\ ret.val = current)

\* C8: over the reader's lifetime the close call (null path and references,
\* zero flags) is issued exactly once, by drop, and drop panics exactly when
\* that call answers a nonzero status.
C8_CloseExactlyOnceAtDrop ==
    /\ (rstate = "live" => closeCalls = 0)
    /\ (rstate = "dropped" => closeCalls = 1)
    /\ (op = "drop" =>
            /\ Len(calls) = 1
            /\ calls[1] = Call("ms3_readmsr_r", "NULL", 0, 0, 0, 0, calls[1].rv)
            /\ (ret.kind = "panic" <=> calls[1].rv # 0))

C8_Witness ==
    /\ op = "drop"
    /\ errYielded
    /\ pos > 0
    /\ flags = MSF_VALIDATECRC
    /\ verbose = 1
    /\ ret.kind = "unit"

\* C4: when an accessor asks for a conversion and the collaborator reports
\* failure, the accessor fails; it returns no sample sequence.
C4_ConversionFailureIsFatal ==
    (op \in ToVecOps /\ calls # <<>> /\ calls[1].rv # 0) => ret.kind = "panic"

\* C5: on a segment whose counts differ or whose payload size is 0, every
\* typed accessor returns an empty sequence, asks for no conversion and reads
\* no payload byte; data_unpacked() is true exactly when the counts are equal
\* and the payload size is positive.
C5_NotUnpackedGivesEmpty ==
    /\ (op \in ToVecOps
        /\ (segPre.samplecnt # segPre.numsamples \/ segPre.datasize = 0)) =>
            /\ ret.kind = "vec"
            /\ ret.val = 0
            /\ ret.bytes = 0
            /\ calls = <<>>
            /\ seg = segPre
    /\ op = "data_unpacked" =>
            (ret.val = 1 <=>
                (seg.samplecnt = seg.numsamples /\ seg.datasize > 0))

C5_Witness ==
    /\ op = "to_vec_f32"
    /\ segPre.samplecnt # segPre.numsamples
    /\ segPre.datasize > 0
    /\ segPre.sampletype = 105

\* C6: an accessor of a list that was never loaded is a usage error that
\* aborts the call (a panic); the null list pointer is never dereferenced.
C6_UnloadedAccessIsUsageError ==
    /\ (op \in {"numtraces", "traces"} /\ mstl = "null") => ret.kind = "panic"
    /\ ~nullDeref

\* C9: when a loaded trace list is dropped, the list obtained from the
\* collaborator is released: it does not stay allocated.
C9_DroppedListIsFreed ==
    (astate = "dropped" /\ everLoaded) => mstl = "freed"

\* C10: an accessor whose requested type is the segment's native type asks
\* for no conversion and leaves the segment (tag, payload, size, counts) as
\* it was.
C10_SameTypeIsNoOp ==
    (op \in ToVecOps /\ Requested(op) = segPre.sampletype) =>
        (calls = <<>> /\ seg = segPre)

C10_Witness ==
    /\ op = "to_vec_f64"
    /\ segPre.sampletype = 100
    /\ data_unpacked(segPre)
    /\ ret.kind = "vec"
    /\ ret.val = MaxSamples

\* C11: on a segment with data_unpacked() true, every typed accessor returns
\* a sequence whose length is the declared sample count. (Stated here for
\* the segments whose tag is one of the three known types.)
C11_UnpackedGivesSamplecnt ==
    (op \in ToVecOps /\ data_unpacked(segPre) /\ KnownTag(segPre.sampletype)) =>
        (ret.kind = "vec" /\ ret.val = segPre.samplecnt)

\* C16: every typed accessor call reads at most the segment's payload size:
\* declared sample count times the width of the requested type does not
\* exceed the payload size at the moment of the read.
C16_ReadWithinPayload ==
    (op \in ToVecOps /\ ret.kind = "vec") => ret.bytes <= seg.datasize

AccessorOps == {"numtraces", "traces", "data_unpacked"} \cup ToVecOps

\* C14: read() returns normally only when the bulk parse answered the
\* success status; on any other status it panics, and no accessor call
\* follows a failed load.
C14_LoadReturnsOnlyOnSuccess ==
    /\ op = "read" =>
        /\ Len(calls) = 1
        /\ calls[1].fn = "ms3_readtracelist"
        /\ (ret.kind = "unit" => calls[1].rv = MS_NOERROR)
        /\ (calls[1].rv # MS_NOERROR =>
                ret.kind = "panic" /\ astate = "failed")
    /\ loadFailed => op \notin AccessorOps

C14_Witness ==
    op = "read" /\ ret.kind = "panic" /\ astate = "failed" /\ calls[1].rv = -7

\* C17: a conversion is requested only when the requested type differs from
\* the segment's tag; after a successful conversion the tag is the requested
\* type; and a typed accessor repeated right after it returned with the tag
\* at its type asks for no conversion, leaves the segment alone and returns
\* the same sequence.
C17_ConversionState ==
    (op \in ToVecOps /\ calls # <<>>) =>
        /\ Len(calls) = 1
        /\ calls[1].type = Requested(op)
        /\ calls[1].type # segPre.sampletype
        /\ (calls[1].rv = 0 => seg.sampletype = Requested(op))

C17_RepeatedCall ==
    (/\ op \in ToVecOps
     /\ ret.kind = "vec"
     /\ data_unpacked(seg)
     /\ seg.sampletype = Requested(op)
     /\ op' = op
     /\ segPre' = seg) =>
        (calls' = <<>> /\ seg' = seg /\ ret' = ret)

C17_TypedAccessIdempotent == []C17_ConversionState /\ [][C17_RepeatedCall]_vars

C17_Witness ==
    /\ op = "to_vec_f32"
    /\ calls # <<>>
    /\ calls[1].rv = 0
    /\ segPre.sampletype = 100
    /\ seg.sampletype = 102
    /\ seg.datasamples = <<102, 102>>
    /\ ret.kind = "vec"
    /\ ret.val = 2
    /\ ret.typed

SetterOps == {"unpack_data", "validate_crc", "verbose"}

\* C13: the flags and verbosity handed to each decode call are, flag by
\* flag, the argument of the latest call of that flag's setter, or the
\* default of new() (unpack on, CRC validation off, verbosity off); a setter
\* changes its own flag only and leaves the other two, the cursor, the
\* last-record flag and the handle as they were.
C13_FlagsAreLatestSet ==
    /\ flags = (IF lastSet.unpack THEN MSF_UNPACKDATA ELSE 0)
               + (IF lastSet.crc THEN MSF_VALIDATECRC ELSE 0)
    /\ verbose = (IF lastSet.verbose THEN 1 ELSE 0)
    /\ op \in {"read_record", "next"} =>
        /\ Len(calls) = 1
        /\ calls[1].flags = (IF lastSet.unpack THEN MSF_UNPACKDATA ELSE 0)
                            + (IF lastSet.crc THEN MSF_VALIDATECRC ELSE 0)
        /\ calls[1].verbose = (IF lastSet.verbose THEN 1 ELSE 0)

C13_SetterFrame ==
    (op' \in SetterOps /\ tick' # tick) =>
        /\ fpos' = fpos /\ last' = last /\ msfp' = msfp /\ pos' = pos
        /\ (op' # "unpack_data" =>
                HasBit(flags', MSF_UNPACKDATA) = HasBit(flags, MSF_UNPACKDATA))
        /\ (op' # "validate_crc" =>
                HasBit(flags', MSF_VALIDATECRC) = HasBit(flags, MSF_VALIDATECRC))
        /\ (op' # "verbose" => verbose' = verbose)

C13_FlagsFollowSetters == []C13_FlagsAreLatestSet /\ [][C13_SetterFrame]_vars

C13_Witness ==
    /\ op = "next"
    /\ pos > 1
    /\ calls[1].flags = MSF_VALIDATECRC
    /\ calls[1].verbose = 1
    /\ fpos > 0

\* The chain a traversal walks
ChainOf(it) == IF it.kind = "traces" THEN idChain ELSE segChain[it.of]

\* C12: on a loaded archive every traces() / segments() starts a fresh
\* traversal; a traversal yields the nodes of its chain once each, in chain
\* order, and after its first None yields nothing more; a step of one
\* traversal changes neither the archive nor any other traversal.
C12_YieldedIsChainPrefix ==
    \A s \in Slots : iters[s].kind # "none" =>
        LET it == iters[s]
            ch == ChainOf(it)
            n == Len(it.yielded)
        IN /\ n <= Len(ch)
           /\ it.yielded = SubSeq(ch, 1, n)
           /\ it.cur = (IF n < Len(ch) THEN ch[n + 1] ELSE 0)
           /\ (it.nones > 0 => it.yielded = ch)

C12_TraversalStep ==
    \A s \in Slots : iters'[s] # iters[s] =>
        /\ \A t \in Slots \ {s} : iters'[t] = iters[t]
        /\ idChain' = idChain /\ segChain' = segChain
        /\ mstl' = mstl /\ numtraces_' = numtraces_ /\ seg' = seg
        /\ astate' = astate
        /\ \/ /\ op' \in {"traces", "segments"}
              /\ iters'[s].yielded = <<>> /\ iters'[s].nones = 0
              /\ iters'[s].cur = First(ChainOf(iters[s])')
           \/ /\ op' \in {"traces.next", "segments.next"}
              /\ iters'[s].kind = iters[s].kind /\ iters'[s].of = iters[s].of
              /\ IF ret'.kind = "Some"
                 THEN /\ iters[s].nones = 0
                      /\ iters'[s].yielded = Append(iters[s].yielded, ret'.val)
                 ELSE /\ ret'.kind = "None"
                      /\ iters'[s].yielded = iters[s].yielded
                      /\ iters'[s].nones = iters[s].nones + 1

C12_TraversalsFreshAndIndependent ==
    []C12_YieldedIsChainPrefix /\ [][C12_TraversalStep]_vars

C12_Witness ==
    /\ idChain = <<2, 1>>
    /\ iters["a"].kind = "traces" /\ iters["a"].yielded = <<2, 1>>
    /\ iters["a"].nones = 2
    /\ iters["b"].kind = "segments" /\ iters["b"].of = 2
    /\ segChain[2] = <<2, 1>> /\ iters["b"].yielded = <<2>>
    /\ op = "segments.next" /\ ret = Ret("Some", 2)

\* C15: two parses of one identifier (network(), station(), location(),
\* channel() in any order, with other accessors in between) give the same
\* four strings, each accessor answers its field of them, and a parse
\* leaves the stored identifier as it was.
C15_AccessorAnswersItsField ==
    (op \in NSLCOps /\ parsed.kind = "nslc") =>
        (ret.kind = "string" /\ ret.val = Field(op, parsed))

C15_ReparseAgrees ==
    /\ (op' \in NSLCOps /\ tick' # tick) => sidbuf' = sidbuf
    /\ (op' \in NSLCOps /\ tick' # tick /\ parsed.kind # "none") => parsed' = parsed
    /\ (op' = "sid" /\ tick' # tick) => (sidbuf' = sidbuf /\ parsed' = parsed)

C18_SidStopsAtFirstNul ==
    /\ (op = "sid" /\ ret.kind = "string") => ret.val = UpToNul(sidbuf)
    /\ (op \in NSLCOps /\ calls # <<>>) => calls[1].path = UpToNul(sidbuf)

====
